---- MODULE Spec2Model ----
(***************************************************************************)
(* A model of the MadFS / uLayFS persistent-memory storage engine:         *)
(*   - BitmapBlock::alloc / alloc_batch     (src/src/layout.h)             *)
(*   - TxLogBlock::try_commit               (src/src/layout.h)             *)
(*   - File::overwrite / write_data / pread (src/src/file.h)               *)
(*   - BlkTable::get                        (src/src/btable.h)             *)
(*   - OffsetMgr                            (src/src/tx/offset.h)          *)
(*   - the POSIX shim                       (src/src/lib.cpp)              *)
(*   - PerThreadData / ShmMgr               (src/src/shm.h)                *)
(* Sizes are scaled down (a 64-bit bitmap word becomes WordBits bits, a    *)
(* 4096-byte block becomes BlockSize bytes); every formula of the code is  *)
(* kept as the code computes it, on the scaled sizes.                      *)
(***************************************************************************)
EXTENDS Integers, Sequences, FiniteSets, TLC

VARIABLES
  \* ---- BitmapBlock (layout.h) and the threads calling alloc / alloc_batch
  bitmaps,      \* Bitmap bitmaps[NUM_BITMAP]
  apc,          \* per thread: position inside alloc / alloc_batch
  aidx,         \* per thread: the loop variable idx
  ab,           \* per thread: the local b (alloc) last loaded / CAS-expected
  acalls,       \* per thread: number of calls made so far
  aseen,        \* per thread: the calls that had returned when it loaded
  handed        \* the values returned so far, each with its caller and call

bmVars == <<bitmaps, apc, aidx, ab, acalls, aseen, handed>>

VARIABLES
  \* ---- TxLogBlock (layout.h) and the threads calling try_commit
  tx_entries,   \* TxEntry tx_entries[NUM_TX_ENTRY]
  tpc,          \* per committer: position inside try_commit
  tidx,         \* per committer: the loop variable idx
  tentry,       \* per committer: commit_entry.entry
  thint,        \* per committer: the argument hint_tail
  tcalls,       \* per committer: number of calls made so far
  placed        \* the calls that have returned: entry and returned idx

txVars == <<tx_entries, tpc, tidx, tentry, thint, tcalls, placed>>

VARIABLES
  \* ---- File (file.h) over the PMEM blocks, the tx log and the block table
  mem,          \* the mapped blocks as the CPU sees them, byte by byte
  pmem,         \* the same bytes as they are durable on PMEM
  dirty,        \* cache lines stored to and not yet written back
  next_free,    \* Allocator: first logical block not yet handed out
  txlog,        \* the tx entries placed so far, in stream order
  logents,      \* the log entries written so far
  table,        \* BlkTable::table
  tail,         \* BlkTable::tail_tx_idx: tx entries applied so far
  fpc,          \* per thread: position inside File::overwrite / pread
  fargs,        \* per thread: arguments and locals of the current overwrite
  fcalls,       \* per thread: overwrite calls made
  rd,           \* per thread: what its last pread delivered
  crashed       \* power was lost; the dirty lines that made it are in pmem

fileVars == <<mem, pmem, dirty, next_free, txlog, logents, table, tail,
              fpc, fargs, fcalls, rd, crashed>>

VARIABLES
  strict_offset_serial, \* runtime_options.strict_offset_serial
  mgr_offset,           \* OffsetMgr::offset
  next_ticket,          \* OffsetMgr::next_ticket
  queues,               \* OffsetMgr::queues: slot -> [ticket, cursor]
  ostream,              \* tx entry stream: the ticket of each commit entry
  opc,                  \* per caller: position in its relative write
  oargs,                \* per caller: ticket, cursor, count, old_offset
  released              \* the (ticket, cursor) pairs given to release_offset

offVars == <<strict_offset_serial, mgr_offset, next_ticket, queues, ostream,
             opc, oargs, released>>

VARIABLES
  files,       \* lib.h: the registry, fd -> File
  kernel_fds,  \* the descriptors the kernel has open for the process
  nfiles,      \* File objects constructed so far
  live,        \* fd -> File of each valid open not closed since
  closed_fds,  \* the descriptors of valid opens that were closed
  disp,        \* where the last call was dispatched
  shim_calls   \* calls made so far

shimVars == <<files, kernel_fds, nfiles, live, closed_fds, disp, shim_calls>>

VARIABLES
  tx_chain,       \* tx blocks: block -> [entries, next]; block 0 is the meta
  tx_bitmap,      \* the blocks the bitmap has allocated for the tx log
  tail_tx_idx,    \* BlkTable::tail_tx_idx: [block_idx, local_idx]
  tail_tx_block,  \* BlkTable::tail_tx_block
  bt_file_size,   \* BlkTable::file_size
  ncommits,       \* commit entries placed so far
  nu_pc,          \* need_update: position of the caller
  nu_loc,         \* need_update: arguments, locals and result
  nu_calls        \* need_update calls made so far

nuVars == <<tx_chain, tx_bitmap, tail_tx_idx, tail_tx_block, bt_file_size,
            ncommits, nu_pc, nu_loc, nu_calls>>

VARIABLES
  ptd,        \* the PerThreadData slots of the shared memory
  ppc,        \* per caller: position in alloc_per_thread_data / reset
  pi,         \* per caller: the loop variable i
  powned,     \* per caller: the slot it was returned and has not reset
  pleft       \* per caller: the parts of cl its memset has yet to clear

shmVars == <<ptd, ppc, pi, powned, pleft>>

vars == <<bmVars, txVars, fileVars, offVars, shimVars, nuVars, shmVars>>

\* what the operations of one component leave alone
notBm == <<txVars, fileVars, offVars, shimVars, nuVars, shmVars>>
notTx == <<bmVars, fileVars, offVars, shimVars, nuVars, shmVars>>
notFile == <<bmVars, txVars, offVars, shimVars, nuVars, shmVars>>
notOff == <<bmVars, txVars, fileVars, shimVars, nuVars, shmVars>>
notShim == <<bmVars, txVars, fileVars, offVars, nuVars, shmVars>>
notNu == <<bmVars, txVars, fileVars, offVars, shimVars, shmVars>>
notShm == <<bmVars, txVars, fileVars, offVars, shimVars, nuVars>>

-----------------------------------------------------------------------------
(* Bounds of the model *)

\* scaled width of Bitmap (uint64_t): bits per bitmap word
WordBits == 2
\* number of threads calling into the bitmap block
NumAllocThreads == 2
\* calls each thread makes
MaxAllocCalls == 2

-----------------------------------------------------------------------------
(* layout.h: constants *)

\* NUM_BITMAP = BLOCK_SIZE / sizeof(Bitmap) words per bitmap block (scaled)
NUM_BITMAP == 2

Pow2(n) == 2 ^ n

BITMAP_ALL_USED == Pow2(WordBits) - 1

Bitmap == 0..BITMAP_ALL_USED

AllocThreads == 1..NumAllocThreads

\* bit i of the word x
Bit(x, i) == (x \div Pow2(i)) % 2

RECURSIVE AndFrom(_, _, _)
AndFrom(x, y, i) ==
  IF i >= WordBits THEN 0
  ELSE Pow2(i) * (Bit(x, i) * Bit(y, i)) + AndFrom(x, y, i + 1)

\* x & y on WordBits-bit words
BitAnd(x, y) == AndFrom(x, y, 0)

\* x | y on WordBits-bit words
BitOr(x, y) == x + y - BitAnd(x, y)

\* ~x on WordBits-bit words
BitNot(x) == BITMAP_ALL_USED - x

\* std::countr_zero(x): number of trailing zero bits; the width for x = 0
countr_zero(x) ==
  IF x = 0 THEN WordBits
  ELSE CHOOSE i \in 0..(WordBits - 1) :
         Bit(x, i) = 1 /\ \A j \in 0..(i - 1) : Bit(x, j) = 0

\* hint >> 6: the word a hint names (64 bits per word, scaled to WordBits)
WordOf(hint) == hint \div WordBits

\* idx << 6
FirstBitOf(idx) == idx * WordBits

-----------------------------------------------------------------------------
(* BitmapBlock::alloc, layout.h:86-98 *)

\* Bitmap allocated = ~b & (b + 1)
allocated(b) == BitAnd(BitNot(b), (b + 1) % Pow2(WordBits))

\* the value alloc's compare-exchange stores: b & allocated
AllocDesired(b) == BitAnd(b, allocated(b))

\* the value alloc returns after a successful compare-exchange
AllocResult(idx, b) == FirstBitOf(idx) + countr_zero(b)

\* the value alloc_batch's compare-exchange stores
BatchDesired == BITMAP_ALL_USED

\* __atomic_compare_exchange_n(&bitmaps[idx], &expected, ...): on x86-64 the
\* weak form is the same lock cmpxchg as the strong one and fails only when
\* the word differs from the expected value
CasSucceedsNever(cur, expected) == FALSE

CasSucceeds(cur, expected) == cur = expected

Return(t, kind, r) ==
  /\ handed' = handed \cup
       {[kind |-> kind, r |-> r, by |-> t, n |-> acalls[t], word |-> aidx[t]]}
  /\ apc' = [apc EXCEPT ![t] = "idle"]

\* a thread enters alloc(hint): idx = hint >> 6
AllocCall(t) ==
  /\ UNCHANGED notBm
  /\ apc[t] = "idle"
  /\ acalls[t] < MaxAllocCalls
  /\ \E hint \in 0..(NUM_BITMAP * WordBits - 1) :
       aidx' = [aidx EXCEPT ![t] = WordOf(hint)]
  /\ apc' = [apc EXCEPT ![t] = "a_load"]
  /\ acalls' = [acalls EXCEPT ![t] = @ + 1]
  /\ UNCHANGED <<bitmaps, ab, aseen, handed>>

\* loop head and the atomic load of bitmaps[idx]
AllocLoad(t) ==
  /\ UNCHANGED notBm
  /\ apc[t] = "a_load"
  /\ IF aidx[t] >= NUM_BITMAP
       THEN /\ Return(t, "alloc", -1)
            /\ UNCHANGED <<aidx, ab, aseen>>
       ELSE IF bitmaps[aidx[t]] = BITMAP_ALL_USED
         THEN /\ aidx' = [aidx EXCEPT ![t] = @ + 1]
              /\ UNCHANGED <<apc, ab, aseen, handed>>
         ELSE /\ ab' = [ab EXCEPT ![t] = bitmaps[aidx[t]]]
              /\ aseen' = [aseen EXCEPT ![t] = handed]
              /\ apc' = [apc EXCEPT ![t] = "a_cas"]
              /\ UNCHANGED <<aidx, handed>>
  /\ UNCHANGED <<bitmaps, acalls>>

\* the compare-exchange of bitmaps[idx] from b; on failure goto retry
AllocCas(t) ==
  /\ UNCHANGED notBm
  /\ apc[t] = "a_cas"
  /\ aseen' = [aseen EXCEPT ![t] = {}]
  /\ IF CasSucceeds(bitmaps[aidx[t]], ab[t])
       THEN /\ bitmaps' = [bitmaps EXCEPT ![aidx[t]] = AllocDesired(ab[t])]
            /\ Return(t, "alloc", AllocResult(aidx[t], ab[t]))
       ELSE /\ apc' = [apc EXCEPT ![t] = "a_load"]
            /\ UNCHANGED <<bitmaps, handed>>
  /\ UNCHANGED <<aidx, ab, acalls>>

(* BitmapBlock::alloc_batch, layout.h:101-112 *)

BatchCall(t) ==
  /\ UNCHANGED notBm
  /\ apc[t] = "idle"
  /\ acalls[t] < MaxAllocCalls
  /\ \E hint \in 0..(NUM_BITMAP * WordBits - 1) :
       aidx' = [aidx EXCEPT ![t] = WordOf(hint)]
  /\ apc' = [apc EXCEPT ![t] = "b_load"]
  /\ acalls' = [acalls EXCEPT ![t] = @ + 1]
  /\ UNCHANGED <<bitmaps, ab, aseen, handed>>

BatchLoad(t) ==
  /\ UNCHANGED notBm
  /\ apc[t] = "b_load"
  /\ IF aidx[t] >= NUM_BITMAP
       THEN /\ Return(t, "batch", -1)
            /\ UNCHANGED <<aidx, aseen>>
       ELSE IF bitmaps[aidx[t]] # 0
         THEN /\ aidx' = [aidx EXCEPT ![t] = @ + 1]
              /\ UNCHANGED <<apc, aseen, handed>>
         ELSE /\ aseen' = [aseen EXCEPT ![t] = handed]
              /\ apc' = [apc EXCEPT ![t] = "b_cas"]
              /\ UNCHANGED <<aidx, handed>>
  /\ UNCHANGED <<bitmaps, ab, acalls>>

BatchCas(t) ==
  /\ UNCHANGED notBm
  /\ apc[t] = "b_cas"
  /\ aseen' = [aseen EXCEPT ![t] = {}]
  /\ IF CasSucceeds(bitmaps[aidx[t]], 0)
       THEN /\ bitmaps' = [bitmaps EXCEPT ![aidx[t]] = BatchDesired]
            /\ Return(t, "batch", FirstBitOf(aidx[t]))
            /\ UNCHANGED aidx
       ELSE /\ aidx' = [aidx EXCEPT ![t] = @ + 1]
            /\ apc' = [apc EXCEPT ![t] = "b_load"]
            /\ UNCHANGED <<bitmaps, handed>>
  /\ UNCHANGED <<ab, acalls>>

\* the state of a component no thread is using
IdleFile ==
  /\ mem = <<>>
  /\ pmem = <<>>
  /\ dirty = {}
  /\ next_free = 0
  /\ txlog = <<>>
  /\ logents = <<>>
  /\ table = <<>>
  /\ tail = 0
  /\ fpc = <<>>
  /\ fargs = <<>>
  /\ fcalls = <<>>
  /\ rd = <<>>
  /\ crashed = FALSE

IdleTx ==
  /\ tx_entries = <<>>
  /\ tpc = <<>>
  /\ tidx = <<>>
  /\ tentry = <<>>
  /\ thint = <<>>
  /\ tcalls = <<>>
  /\ placed = {}

IdleNu ==
  /\ tx_chain = <<>>
  /\ tx_bitmap = {}
  /\ tail_tx_idx = <<>>
  /\ tail_tx_block = 0
  /\ bt_file_size = 0
  /\ ncommits = 0
  /\ nu_pc = ""
  /\ nu_loc = <<>>
  /\ nu_calls = 0

IdleShim ==
  /\ files = <<>>
  /\ kernel_fds = {}
  /\ nfiles = 0
  /\ live = <<>>
  /\ closed_fds = {}
  /\ disp = <<>>
  /\ shim_calls = 0

IdleShm ==
  /\ ptd = <<>>
  /\ ppc = <<>>
  /\ pi = <<>>
  /\ powned = <<>>
  /\ pleft = <<>>

IdleOffset ==
  /\ strict_offset_serial = FALSE
  /\ mgr_offset = 0
  /\ next_ticket = 1
  /\ queues = <<>>
  /\ ostream = <<>>
  /\ opc = <<>>
  /\ oargs = <<>>
  /\ released = {}

InitBitmap ==
  /\ IdleShm
  /\ IdleNu
  /\ IdleShim
  /\ IdleTx
  /\ IdleFile
  /\ IdleOffset
  /\ bitmaps \in [0..(NUM_BITMAP - 1) -> Bitmap]
  /\ apc = [t \in AllocThreads |-> "idle"]
  /\ aidx = [t \in AllocThreads |-> 0]
  /\ ab = [t \in AllocThreads |-> 0]
  /\ aseen = [t \in AllocThreads |-> {}]
  /\ acalls = [t \in AllocThreads |-> 0]
  /\ handed = {}

NextBitmap ==
  \E t \in AllocThreads :
    \/ AllocCall(t)
    \/ AllocLoad(t)
    \/ AllocCas(t)
    \/ BatchCall(t)
    \/ BatchLoad(t)
    \/ BatchCas(t)

SpecBitmap == InitBitmap /\ [][NextBitmap]_vars

-----------------------------------------------------------------------------
\* the logical block indices a returned value names
Blocks(h) ==
  IF h.r < 0 THEN {}
  ELSE IF h.kind = "batch" THEN h.r..(h.r + WordBits - 1)
  ELSE {h.r}

\* C1: no logical block index is handed out twice: the indices returned by
\* alloc and the ranges returned by alloc_batch are pairwise disjoint.
C1_NoDoubleAlloc ==
  \A g, h \in handed :
    g # h => Blocks(g) \cap Blocks(h) = {}

-----------------------------------------------------------------------------
(* TxLogBlock::try_commit, layout.h:115-132 *)

\* committers racing on one tx log block
NumCommitters == 2
\* try_commit calls each committer makes
MaxCommitCalls == 2
\* scaled NUM_TX_ENTRY, the size of tx_entries (511 in the build)
NUM_TX_ENTRY == 5
\* scaled NUM_LOG_ENTRY (256 in the build, about half of NUM_TX_ENTRY)
NUM_LOG_ENTRY == (NUM_TX_ENTRY + 1) \div 2

Committers == 1..NumCommitters

\* the non-zero 64-bit word of the n-th commit entry of committer c
EntryOf(c, n) == c * (MaxCommitCalls + 1) + n

\* for (auto idx = hint_tail; idx < NUM_LOG_ENTRY; ++idx)
TryCommitInRange(idx) == idx < NUM_LOG_ENTRY

\* __atomic_compare_exchange_n(&tx_entries[idx].entry, &expected = 0, ...)
\* succeeds when the slot holds the expected value
TxCasSucceedsAnyway(cur) == TRUE

TxCasSucceeds(cur) == cur = 0

\* auto idx = hint_tail: the slot the scan starts at
ScanStartBehind(hint_tail) == hint_tail + 1

ScanStart(hint_tail) == hint_tail

TxReturn(c, r) ==
  /\ placed' = placed \cup
       {[entry |-> tentry[c], idx |-> r, hint |-> thint[c]]}
  /\ tpc' = [tpc EXCEPT ![c] = "idle"]

TryCommitCall(c) ==
  /\ UNCHANGED notTx
  /\ tpc[c] = "idle"
  /\ tcalls[c] < MaxCommitCalls
  /\ \E hint_tail \in 0..(NUM_TX_ENTRY - 1) :
       /\ tidx' = [tidx EXCEPT ![c] = ScanStart(hint_tail)]
       /\ thint' = [thint EXCEPT ![c] = hint_tail]
  /\ tentry' = [tentry EXCEPT ![c] = EntryOf(c, tcalls[c] + 1)]
  /\ tcalls' = [tcalls EXCEPT ![c] = @ + 1]
  /\ tpc' = [tpc EXCEPT ![c] = "load"]
  /\ UNCHANGED <<tx_entries, placed>>

\* loop head and the atomic load of tx_entries[idx]
TryCommitLoad(c) ==
  /\ UNCHANGED notTx
  /\ tpc[c] = "load"
  /\ IF ~TryCommitInRange(tidx[c])
       THEN /\ TxReturn(c, -1)
            /\ UNCHANGED tidx
       ELSE IF tx_entries[tidx[c]] # 0
         THEN /\ tidx' = [tidx EXCEPT ![c] = @ + 1]
              /\ UNCHANGED <<tpc, placed>>
         ELSE /\ tpc' = [tpc EXCEPT ![c] = "cas"]
              /\ UNCHANGED <<tidx, placed>>
  /\ UNCHANGED <<tx_entries, tentry, thint, tcalls>>

\* the compare-exchange; a failure moves on to the next slot
TryCommitCas(c) ==
  /\ UNCHANGED notTx
  /\ tpc[c] = "cas"
  /\ IF TxCasSucceeds(tx_entries[tidx[c]])
       THEN /\ tx_entries' = [tx_entries EXCEPT ![tidx[c]] = tentry[c]]
            /\ TxReturn(c, tidx[c])
            /\ UNCHANGED tidx
       ELSE /\ tidx' = [tidx EXCEPT ![c] = @ + 1]
            /\ tpc' = [tpc EXCEPT ![c] = "load"]
            /\ UNCHANGED <<tx_entries, placed>>
  /\ UNCHANGED <<tentry, thint, tcalls>>

IdleBitmap ==
  /\ bitmaps = <<>>
  /\ apc = <<>>
  /\ aidx = <<>>
  /\ ab = <<>>
  /\ aseen = <<>>
  /\ acalls = <<>>
  /\ handed = {}

InitTx ==
  /\ IdleShm
  /\ IdleNu
  /\ IdleShim
  /\ IdleOffset
  /\ IdleBitmap
  /\ IdleFile
  /\ tx_entries = [s \in 0..(NUM_TX_ENTRY - 1) |-> 0]
  /\ tpc = [c \in Committers |-> "idle"]
  /\ tidx = [c \in Committers |-> 0]
  /\ tentry = [c \in Committers |-> 0]
  /\ thint = [c \in Committers |-> 0]
  /\ tcalls = [c \in Committers |-> 0]
  /\ placed = {}

NextTx ==
  \E c \in Committers :
    \/ TryCommitCall(c)
    \/ TryCommitLoad(c)
    \/ TryCommitCas(c)

SpecTx == InitTx /\ [][NextTx]_vars

\* the calls of try_commit that returned a slot index
Succeeded(pl) == {p \in pl : p.idx >= 0}

\* C4: a tx-entry slot changes value at most once and only from zero to a
\* non-zero entry: a slot holding a non-zero entry is never overwritten, a
\* successful try_commit finds its slot zero and leaves its entry there, and
\* no two successful calls return the same slot.
C4_SlotStep ==
  /\ \A s \in DOMAIN tx_entries :
       tx_entries[s] # 0 => tx_entries'[s] = tx_entries[s]
  /\ \A s \in DOMAIN tx_entries :
       tx_entries'[s] # tx_entries[s] =>
         /\ tx_entries[s] = 0
         /\ tx_entries'[s] # 0
  /\ \A p \in Succeeded(placed') \ Succeeded(placed) :
       /\ tx_entries[p.idx] = 0
       /\ tx_entries'[p.idx] = p.entry
  /\ \A p, q \in Succeeded(placed') :
       p # q => p.idx # q.idx

C4_SlotsWriteOnce == [][C4_SlotStep]_vars

\* two committers raced for one slot: one call has placed its entry in the
\* slot that another committer loaded as zero and is about to compare-exchange
C4_Witness ==
  \E c \in Committers :
    /\ tpc[c] = "cas"
    /\ tx_entries[tidx[c]] # 0
    /\ \E p \in Succeeded(placed) :
         /\ p.idx = tidx[c]
         /\ p.entry # tentry[c]
         /\ tx_entries[p.idx] = p.entry

-----------------------------------------------------------------------------
(* File, file.h, over the PMEM blocks (layout.h), Allocator, TxMgr, LogMgr  *)
(* and BlkTable::update                                                     *)

\* scaled BLOCK_SIZE: bytes per block (4096 in the build)
BlockSize == 2
\* overwrite calls the threads make in all
MaxWrites == 2

\* the threads sharing one File
Writers == {1, 2}

\* the largest count and offset a call is given
MaxCount == BlockSize + 1
MaxOffset == BlockSize

\* blocks a call of overwrite allocates at most
MaxNumBlocks == (MaxCount + BlockSize - 1) \div BlockSize

\* logical blocks mapped: the meta block, every run the calls allocate, and
\* one more block behind them
NumBlocks == 1 + MaxWrites * MaxNumBlocks + 1

\* bytes mapped; the addresses 0..MemBytes-1 are PMEM
MemBytes == NumBlocks * BlockSize

\* a byte of the MetaBlock structure (logical block 0), whatever its value
MetaByte == 0 - 1
\* a byte of a caller's buffer that pread has not stored to
Untouched == 0 - 2

\* scaled size of a cache line: one line per block
LineSize == BlockSize
LineOf(a) == a \div LineSize

\* scaled 2^64: size_t / uint64_t arithmetic wraps at this modulus
SIZE_MOD == Pow2(30)
\* uint16_t arithmetic
U16(x) == x % Pow2(16)

\* utils.h: ALIGN_UP(x, BLOCK_SIZE), ALIGN_DOWN(x, BLOCK_SIZE), x >> BLOCK_SHIFT
ALIGN_UP(x) == ((x + BlockSize - 1) \div BlockSize) * BlockSize
ALIGN_DOWN(x) == (x \div BlockSize) * BlockSize
BlockShift(x) == x \div BlockSize

\* file.h:87 and :116  num_blocks = ALIGN_UP(count, BLOCK_SIZE) >> BLOCK_SHIFT
NumBlocksOf(count) == BlockShift(ALIGN_UP(count))

\* file.h:89 and :114  start_virtual_idx = ALIGN_DOWN(offset, BLOCK_SIZE)
StartVirtualIdx(offset) == ALIGN_DOWN(offset)

\* file.h:96 and :117  start_offset = offset - start_virtual_idx * BLOCK_SIZE
StartOffset(offset) ==
  (offset - StartVirtualIdx(offset) * BlockSize) % SIZE_MOD

\* file.h:99 and :118
\* uint16_t last_remaining = num_blocks * BLOCK_SIZE - count - start_offset
LastRemaining(num_blocks, count, start_offset) ==
  U16(num_blocks * BlockSize - count - start_offset)

\* BlkTable::get, btable.h:46-49
BlkGet(tbl, virtual_block_idx) ==
  IF virtual_block_idx >= Len(tbl) THEN 0 ELSE tbl[virtual_block_idx + 1]

\* BlkTable::BlkTable, btable.h:37: table.resize(16), scaled
TableInitSize == 1

\* MemTable::get_addr: the address of a logical block
get_addr(logical_idx) == logical_idx * BlockSize

\* the bytes of the id-th write: distinct per write and position
BufOf(id, count) == [i \in 1..count |-> id * 10 + i]

-----------------------------------------------------------------------------
(* File::write_data, file.h:35-54 *)

\* memcpy(dst, src, start_offset) and memcpy(dst + start_offset, buf, count)
\* stay inside the mapping
HeadInRange(dst, src, start_offset) ==
  \/ start_offset = 0
  \/ /\ dst + start_offset <= MemBytes
     /\ src + start_offset <= MemBytes

PayloadInRange(dst, start_offset, count) ==
  dst + start_offset + count <= MemBytes

\* if (start_offset) memcpy(dst, src, start_offset)
CopyHead(m, dst, src, start_offset) ==
  [a \in DOMAIN m |->
     IF a >= dst /\ a < dst + start_offset THEN m[src + (a - dst)] ELSE m[a]]

\* memcpy(dst + start_offset, buf, count)
CopyPayload(m, dst, start_offset, buf) ==
  [a \in DOMAIN m |->
     IF a >= dst + start_offset /\ a < dst + start_offset + Len(buf)
       THEN buf[a - dst - start_offset + 1]
       ELSE m[a]]

\* the lines the two copies store to
LinesStored(dst, start_offset, count) ==
  {LineOf(a) : a \in dst..(dst + start_offset + count - 1)}

\* file.h:53  pmem::persist_fenced(&dst, count + start_offset): the range
\* starts at the address of the local pointer variable dst, which is on the
\* stack, outside the mapped PMEM; MemBytes stands for that address
WriteDataPersistAddr(dst) == MemBytes

\* persist_fenced(addr, len): the PMEM lines covering [addr, addr + len)
LinesPersisted(addr, len) ==
  {LineOf(a) : a \in {x \in addr..(addr + len - 1) : x >= 0 /\ x < MemBytes}}

WriteBack(pm, m, lines) ==
  [a \in DOMAIN pm |-> IF LineOf(a) \in lines THEN m[a] ELSE pm[a]]

-----------------------------------------------------------------------------
(* BlkTable::update: replay of the tx entries *)

Max(a, b) == IF a >= b THEN a ELSE b

\* resize_to_fit: grow the table, by doubling, to hold index need - 1
ResizeToFit(tbl, need) ==
  IF Len(tbl) >= need THEN tbl
  ELSE tbl \o [i \in 1..(Max(need, 2 * Len(tbl)) - Len(tbl)) |-> 0]

\* apply_tx: map the virtual blocks of a log entry to its logical blocks
ApplyLogEntry(tbl, le) ==
  [v \in 1..Len(ResizeToFit(tbl, le.vidx + le.nb)) |->
     IF v - 1 >= le.vidx /\ v - 1 < le.vidx + le.nb
       THEN le.lidx + (v - 1 - le.vidx)
       ELSE ResizeToFit(tbl, le.vidx + le.nb)[v]]

RECURSIVE ApplyTx(_, _, _, _, _)
\* apply the entries from + 1 .. upto of the stream txl to the table
ApplyTx(tbl, txl, les, from, upto) ==
  IF from >= upto THEN tbl
  ELSE ApplyTx(IF /\ txl[from + 1].type = "commit"
                  /\ txl[from + 1].log_idx \in DOMAIN les
                 THEN ApplyLogEntry(tbl, les[txl[from + 1].log_idx])
                 ELSE tbl,
               txl, les, from + 1, upto)

EmptyTable == [i \in 1..TableInitSize |-> 0]

\* the byte at file position p under a block table and a memory image;
\* an unmapped virtual block reads as zeros
ContentByte(tbl, m, p) ==
  IF BlkGet(tbl, BlockShift(p)) = 0 THEN 0
  ELSE m[get_addr(BlkGet(tbl, BlockShift(p))) + (p % BlockSize)]

-----------------------------------------------------------------------------
(* File::overwrite, file.h:86-108 *)

NoArgs == [id |-> 0, count |-> 0, offset |-> 0, nb |-> 0, svi |-> 0,
           sli |-> 0, so |-> 0, begin_idx |-> 0, log_idx |-> 0,
           pre |-> <<>>, solo |-> FALSE, at |-> 0]

NoRead == [n |-> 0, o |-> 0, buf |-> <<>>, overrun |-> FALSE,
           meta |-> FALSE, holes |-> {}, at |-> 0]

Running == ~crashed /\ \A w \in Writers : fpc[w] # "fault"

RECURSIVE SumOver(_, _)
SumOver(f, S) ==
  IF S = {} THEN 0
  ELSE LET x == CHOOSE y \in S : TRUE IN f[x] + SumOver(f, S \ {x})

\* overwrite calls made so far
TotalCalls == SumOver(fcalls, Writers)

\* the calls File::overwrite makes after allocating, in program order
\* (file.h:92, :97, :100, :103, :105), and then its return
OverwriteOrderCommitFirst ==
  <<"begin_tx", "commit_tx", "write_data", "write_log_entry", "update", "idle">>

OverwriteOrder ==
  <<"begin_tx", "write_data", "write_log_entry", "commit_tx", "update", "idle">>

StepAfter(step) ==
  OverwriteOrder[(CHOOSE i \in DOMAIN OverwriteOrder :
                    OverwriteOrder[i] = step) + 1]

\* the file positions of the virtual blocks holding [offset, offset + count)
Affected(offset, count) ==
  ALIGN_DOWN(offset)..(ALIGN_UP(offset + count) - 1)

\* entry: num_blocks, start_virtual_idx, allocator.alloc(num_blocks)
OwCall(w) ==
  /\ UNCHANGED notFile
  /\ Running
  /\ fpc[w] = "idle"
  /\ TotalCalls < MaxWrites
  /\ \E count \in 1..MaxCount, offset \in 0..MaxOffset :
       /\ fargs' = [v \in Writers |->
            IF v = w
              THEN [NoArgs EXCEPT
                     !.id = TotalCalls + 1,
                     !.count = count,
                     !.offset = offset,
                     !.nb = NumBlocksOf(count),
                     !.svi = StartVirtualIdx(offset),
                     !.sli = next_free,
                     !.pre = [p \in 1..(ALIGN_UP(offset + count)) |->
                                ContentByte(table, mem, p - 1)],
                     !.solo = \A u \in Writers \ {w} : fpc[u] = "idle"]
              ELSE [fargs[v] EXCEPT !.solo = FALSE]]
       /\ next_free' = next_free + NumBlocksOf(count)
  /\ fcalls' = [fcalls EXCEPT ![w] = @ + 1]
  /\ fpc' = [fpc EXCEPT ![w] = OverwriteOrder[1]]
  /\ UNCHANGED <<mem, pmem, dirty, txlog, logents, table, tail, rd, crashed>>

\* tx_mgr.begin_tx(start_virtual_idx, num_blocks): place a TxBegin entry
OwBeginTx(w) ==
  /\ UNCHANGED notFile
  /\ Running
  /\ fpc[w] = "begin_tx"
  /\ txlog' = Append(txlog, [type |-> "begin", id |-> fargs[w].id,
                             vidx |-> fargs[w].svi, nb |-> fargs[w].nb,
                             begin_idx |-> 0, log_idx |-> 0])
  /\ fargs' = [fargs EXCEPT ![w].begin_idx = Len(txlog) + 1,
                            ![w].so = StartOffset(fargs[w].offset)]
  /\ fpc' = [fpc EXCEPT ![w] = StepAfter("begin_tx")]
  /\ UNCHANGED <<mem, pmem, dirty, next_free, logents, table, tail, fcalls,
                 rd, crashed>>

\* write_data(buf, count, start_offset, start_virtual_idx, start_logical_idx)
OwWriteData(w) ==
  /\ UNCHANGED notFile
  /\ Running
  /\ fpc[w] = "write_data"
  /\ LET a == fargs[w]
         dst == get_addr(a.sli)
         src == get_addr(BlkGet(table, a.svi))
         m1 == CopyHead(mem, dst, src, a.so)
         m2 == CopyPayload(m1, dst, a.so, BufOf(a.id, a.count))
         stored == LinesStored(dst, a.so, a.count)
         flushed == LinesPersisted(WriteDataPersistAddr(dst), a.count + a.so)
     IN IF HeadInRange(dst, src, a.so) /\ PayloadInRange(dst, a.so, a.count)
          THEN /\ mem' = m2
               /\ pmem' = WriteBack(pmem, m2, flushed)
               /\ dirty' = (dirty \cup stored) \ flushed
               /\ fpc' = [fpc EXCEPT ![w] = StepAfter("write_data")]
          ELSE \* a copy runs out of the mapping: the process faults
               /\ fpc' = [fpc EXCEPT ![w] = "fault"]
               /\ UNCHANGED <<mem, pmem, dirty>>
  /\ UNCHANGED <<next_free, txlog, logents, table, tail, fargs, fcalls, rd,
                 crashed>>

\* last_remaining and tx_mgr.write_log_entry(...)
OwWriteLogEntry(w) ==
  /\ UNCHANGED notFile
  /\ Running
  /\ fpc[w] = "write_log_entry"
  /\ logents' = Append(logents,
       [vidx |-> fargs[w].svi, lidx |-> fargs[w].sli, nb |-> fargs[w].nb,
        last_remaining |->
          LastRemaining(fargs[w].nb, fargs[w].count, fargs[w].so)])
  /\ fargs' = [fargs EXCEPT ![w].log_idx = Len(logents) + 1]
  /\ fpc' = [fpc EXCEPT ![w] = StepAfter("write_log_entry")]
  /\ UNCHANGED <<mem, pmem, dirty, next_free, txlog, table, tail, fcalls, rd,
                 crashed>>

\* tx_mgr.commit_tx(tx_begin_idx, log_entry_idx): place the commit entry
OwCommitTx(w) ==
  /\ UNCHANGED notFile
  /\ Running
  /\ fpc[w] = "commit_tx"
  /\ txlog' = Append(txlog, [type |-> "commit", id |-> fargs[w].id,
                             vidx |-> 0, nb |-> 0,
                             begin_idx |-> fargs[w].begin_idx,
                             log_idx |-> fargs[w].log_idx])
  /\ fpc' = [fpc EXCEPT ![w] = StepAfter("commit_tx")]
  /\ UNCHANGED <<mem, pmem, dirty, next_free, logents, table, tail, fargs,
                 fcalls, rd, crashed>>

\* btable.update() and return count
OwUpdate(w) ==
  /\ UNCHANGED notFile
  /\ Running
  /\ fpc[w] = "update"
  /\ table' = ApplyTx(table, txlog, logents, tail, Len(txlog))
  /\ tail' = Len(txlog)
  /\ fargs' = [fargs EXCEPT ![w].at = Len(txlog)]
  /\ fpc' = [fpc EXCEPT ![w] = StepAfter("update")]
  /\ UNCHANGED <<mem, pmem, dirty, next_free, txlog, logents, fcalls, rd,
                 crashed>>

-----------------------------------------------------------------------------
(* File::pread, file.h:113-131, and File::get_data_block_ptr, file.h:60-63 *)

\* size_t num_bytes = i == num_blocks - 1 ? last_remaining : BLOCK_SIZE
NumBytes(i, num_blocks, last_remaining) ==
  IF i = num_blocks - 1 THEN last_remaining ELSE BlockSize

\* get_data_block_ptr(virtual_block_idx): mtable.get_addr(btable.get(idx))
get_data_block_ptr(tbl, virtual_block_idx) ==
  get_addr(BlkGet(tbl, virtual_block_idx))

\* void* src = i == 0 ? ptr + start_offset : ptr
SrcOf(tbl, i, start_virtual_idx, start_offset) ==
  IF i = 0
    THEN (get_data_block_ptr(tbl, start_virtual_idx + i) + start_offset)
           % SIZE_MOD
    ELSE get_data_block_ptr(tbl, start_virtual_idx + i)

\* the copies of one call: for each i, the bytes, their source, and whether
\* the virtual block is unmapped
PreadChunks(tbl, count, offset) ==
  LET nb == NumBlocksOf(count)
      svi == StartVirtualIdx(offset)
      so == StartOffset(offset)
      lr == LastRemaining(nb, count, so)
  IN [i \in 0..(nb - 1) |->
        [num_bytes |-> NumBytes(i, nb, lr),
         src |-> SrcOf(tbl, i, svi, so),
         dst |-> i * BlockSize,
         hole |-> BlkGet(tbl, svi + i) = 0]]

\* a copy reads outside the mapping
PreadFaults(ch) ==
  \E i \in DOMAIN ch :
    ch[i].num_bytes > 0 /\ ch[i].src + ch[i].num_bytes > MemBytes

\* the caller's buffer of count bytes after the copies (they do not overlap
\* inside the buffer: copy i starts at i * BLOCK_SIZE)
PreadBuf(m, ch, count) ==
  [k \in 1..count |->
     LET i == (k - 1) \div BlockSize
     IN IF i \in DOMAIN ch /\ (k - 1) - ch[i].dst < ch[i].num_bytes
          THEN m[ch[i].src + ((k - 1) - ch[i].dst)]
          ELSE Untouched]

\* a copy stores behind the end of the caller's buffer
PreadOverrun(ch, count) ==
  \E i \in DOMAIN ch :
    ch[i].num_bytes > 0 /\ ch[i].dst + ch[i].num_bytes > count

\* the positions of the buffer filled from an unmapped virtual block
PreadHoles(ch, count) ==
  {k \in 1..count :
     LET i == (k - 1) \div BlockSize
     IN i \in DOMAIN ch /\ ch[i].hole
        /\ (k - 1) - ch[i].dst < ch[i].num_bytes}

Pread(w) ==
  /\ UNCHANGED notFile
  /\ Running
  /\ fpc[w] = "idle"
  /\ rd[w].n = 0
  /\ \E count \in 1..MaxCount, offset \in 0..MaxOffset :
       LET ch == PreadChunks(table, count, offset)
       IN IF PreadFaults(ch)
            THEN /\ fpc' = [fpc EXCEPT ![w] = "fault"]
                 /\ UNCHANGED rd
            ELSE /\ rd' = [rd EXCEPT ![w] =
                      [n |-> count, o |-> offset,
                       buf |-> PreadBuf(mem, ch, count),
                       overrun |-> PreadOverrun(ch, count),
                       meta |-> \E i \in DOMAIN ch :
                                  ch[i].hole /\ ch[i].num_bytes > 0,
                       holes |-> PreadHoles(ch, count),
                       at |-> Len(txlog)]]
                 /\ UNCHANGED fpc
  /\ UNCHANGED <<mem, pmem, dirty, next_free, txlog, logents, table, tail,
                 fargs, fcalls, crashed>>

-----------------------------------------------------------------------------
(* power failure and the replay at the next open *)

\* Power is lost: any of the dirty lines may have been written back, the
\* others keep their durable content.  pmem is what the next open maps;
\* mem keeps the image the threads had built, for comparison.  The block
\* table is rebuilt from the tx stream.
Crash ==
  /\ UNCHANGED notFile
  /\ Running
  /\ \E lines \in SUBSET dirty : pmem' = WriteBack(pmem, mem, lines)
  /\ dirty' = {}
  /\ crashed' = TRUE
  /\ table' = ApplyTx(EmptyTable, txlog, logents, 0, Len(txlog))
  /\ tail' = Len(txlog)
  /\ UNCHANGED <<mem, next_free, txlog, logents, fpc, fargs, fcalls, rd>>

InitFile ==
  /\ IdleShm
  /\ IdleNu
  /\ IdleShim
  /\ IdleOffset
  /\ IdleBitmap
  /\ IdleTx
  /\ mem = [a \in 0..(MemBytes - 1) |-> IF a < BlockSize THEN MetaByte ELSE 0]
  /\ pmem = mem
  /\ dirty = {}
  /\ next_free = 1
  /\ txlog = <<>>
  /\ logents = <<>>
  /\ table = EmptyTable
  /\ tail = 0
  /\ fpc = [w \in Writers |-> "idle"]
  /\ fargs = [w \in Writers |-> NoArgs]
  /\ fcalls = [w \in Writers |-> 0]
  /\ rd = [w \in Writers |-> NoRead]
  /\ crashed = FALSE

\* threads writing concurrently, and a power failure at any point
NextFile ==
  \/ \E w \in Writers :
       \/ OwCall(w)
       \/ OwBeginTx(w)
       \/ OwWriteData(w)
       \/ OwWriteLogEntry(w)
       \/ OwCommitTx(w)
       \/ OwUpdate(w)
  \/ Crash

SpecFile == InitFile /\ [][NextFile]_vars

\* one thread writing and reading
NextFileRW ==
  \E w \in {1} :
    \/ OwCall(w)
    \/ OwBeginTx(w)
    \/ OwWriteData(w)
    \/ OwWriteLogEntry(w)
    \/ OwCommitTx(w)
    \/ OwUpdate(w)
    \/ Pread(w)

SpecFileRW == InitFile /\ [][NextFileRW]_vars

-----------------------------------------------------------------------------
(* Properties of File *)

\* C2: read-your-writes: a pread(n, o) right after overwrite(buf, n, o) has
\* returned fills the caller's buffer with exactly the n bytes of buf.
C2_ReadYourWrites ==
  \A w \in Writers :
    ( /\ fpc[w] = "idle"
      /\ fargs[w].at > 0
      /\ rd[w].n = fargs[w].count
      /\ rd[w].o = fargs[w].offset
      /\ rd[w].at = fargs[w].at )
    => /\ rd[w].buf = BufOf(fargs[w].id, fargs[w].count)
       /\ ~rd[w].overrun

\* the block tables a replay of a prefix of the tx stream builds
PrefixTables ==
  {ApplyTx(EmptyTable, txlog, logents, 0, j) : j \in 0..Len(txlog)}

\* the file positions a block table of the model can map
Positions == 0..(MaxNumBlocks * BlockSize - 1)

\* C3: after a crash at any point, the file state the replay yields from the
\* durable bytes equals the state after some prefix of the committed writes.
C3_CrashConsistent ==
  crashed =>
    \E tbl \in PrefixTables :
      \A p \in Positions :
        ContentByte(table, pmem, p) = ContentByte(tbl, mem, p)

\* C5: a commit entry is in the tx log only after the log entry it names has
\* been written and the data blocks of the write have been copied and
\* persisted: no line of these blocks is still waiting to be written back.
C5_CommitAfterPersist ==
  ~crashed =>
    \A i \in DOMAIN txlog :
      txlog[i].type = "commit" =>
        /\ txlog[i].log_idx \in DOMAIN logents
        /\ LET le == logents[txlog[i].log_idx]
           IN LinesPersisted(get_addr(le.lidx), le.nb * BlockSize)
                \cap dirty = {}

\* the steps of overwrite before the commit entry is placed
BeforeCommit == {"begin_tx", "write_data", "write_log_entry", "commit_tx"}

EntriesOf(id) == {i \in DOMAIN txlog : txlog[i].id = id}

RangeOf(a) == a.offset..(a.offset + a.count - 1)

\* C8: two concurrent overwrites of disjoint byte ranges: once both have
\* returned, the file holds the bytes of both.
C8_DisjointWritesCommute ==
  ( /\ ~crashed
    /\ \A w \in Writers : fpc[w] = "idle" /\ fcalls[w] = 1 /\ fargs[w].at > 0
    /\ \A u, w \in Writers :
         u # w => RangeOf(fargs[u]) \cap RangeOf(fargs[w]) = {} )
  => \A w \in Writers :
       \A j \in 1..fargs[w].count :
         ContentByte(table, mem, fargs[w].offset + j - 1)
           = BufOf(fargs[w].id, fargs[w].count)[j]

\* C9: a partial-block overwrite of blocks that hold data leaves every byte
\* of these blocks outside [o, o + n) as it was.
C9_FrameOutsideRange ==
  \A w \in Writers :
    ( /\ ~crashed
      /\ fpc[w] = "idle"
      /\ fargs[w].at > 0
      /\ fargs[w].solo
      /\ \A p \in DOMAIN fargs[w].pre : fargs[w].pre[p] > 0 )
    => \A p \in Affected(fargs[w].offset, fargs[w].count) \ RangeOf(fargs[w]) :
         ContentByte(table, mem, p) = fargs[w].pre[p + 1]

\* C10: pread delivers zero bytes for a virtual block no committed write has
\* mapped, and never the bytes of logical block 0.
C10_HolesReadZero ==
  \A w \in Writers :
    rd[w].n > 0 =>
      /\ ~rd[w].meta
      /\ \A k \in rd[w].holes : rd[w].buf[k] = 0

-----------------------------------------------------------------------------
(* OffsetMgr (tx/offset.h): the ticketed offset serializer, and the relative
   write that uses it: acquire_offset under the file spinlock, append the
   commit entry to the tx stream, validate_offset (redo the append while it
   returns false), release_offset. *)

\* threads doing one relative write each
NumOffsetCallers == 3

\* the counts and file sizes acquire_offset is called with
AcquireCounts == {1}
FileSizes == {1}

\* const.h: the size of the ticket ring (scaled)
NUM_OFFSET_QUEUE_SLOT == 2

OffsetCallers == 1..NumOffsetCallers

\* the ring slot of a ticket (offset.h:83, :119)
SlotOf(ticket) == ticket % NUM_OFFSET_QUEUE_SLOT

\* TicketSlot() (offset.h:26): ticket 0; the cursor is default-constructed
EmptySlot == [ticket |-> 0, cursor |-> 0]

NoOffsetArgs == [ticket |-> 0, cursor |-> 0, count |-> 0, old_offset |-> 0,
                 req |-> 0, clamped |-> FALSE]

\* acquire_offset (offset.h:59-69) on uint64_t values: the new offset and
\* the count written back
AcquiredOffsetStuck(count, file_size, stop_at_boundary) == mgr_offset

AcquiredOffset(count, file_size, stop_at_boundary) ==
  LET moved == (mgr_offset + count) % SIZE_MOD
  IN IF stop_at_boundary /\ moved > file_size
       THEN file_size
       ELSE moved

AcquiredCount(count, file_size, stop_at_boundary) ==
  LET moved == (mgr_offset + count) % SIZE_MOD
  IN IF stop_at_boundary /\ moved > file_size
       THEN (file_size + SIZE_MOD - mgr_offset) % SIZE_MOD
       ELSE count

\* whether acquire_offset takes the branch of offset.h:63
Clamped(count, file_size, stop_at_boundary) ==
  stop_at_boundary /\ (mgr_offset + count) % SIZE_MOD > file_size

\* acquire_offset, called with the spinlock held
AcquireOffset(w) ==
  /\ UNCHANGED notOff
  /\ opc[w] = "idle"
  /\ \E count \in AcquireCounts, file_size \in FileSizes,
        stop_at_boundary \in BOOLEAN :
       /\ mgr_offset' = AcquiredOffset(count, file_size, stop_at_boundary)
       /\ oargs' = [oargs EXCEPT ![w] =
            [ticket |-> next_ticket,
             cursor |-> 0,
             count |-> AcquiredCount(count, file_size, stop_at_boundary),
             old_offset |-> mgr_offset,
             req |-> count,
             clamped |-> Clamped(count, file_size, stop_at_boundary)]]
  /\ next_ticket' = next_ticket + 1
  /\ opc' = [opc EXCEPT ![w] = "append"]
  /\ UNCHANGED <<strict_offset_serial, queues, ostream, released>>

\* the tx append of the write: its commit entry goes to the tail of the
\* stream and the caller keeps the cursor of the entry
TxAppend(w) ==
  /\ UNCHANGED notOff
  /\ opc[w] = "append"
  /\ ostream' = Append(ostream, oargs[w].ticket)
  /\ oargs' = [oargs EXCEPT ![w].cursor = Len(ostream) + 1]
  /\ opc' = [opc EXCEPT ![w] = "wait"]
  /\ UNCHANGED <<strict_offset_serial, mgr_offset, next_ticket, queues,
                 released>>

\* the exit test of wait_offset's spin loop (offset.h:84-85)
TicketPublishedNever(slot, prev_ticket) == FALSE

TicketPublishedAlways(slot, prev_ticket) == TRUE

TicketPublished(slot, prev_ticket) == slot.ticket = prev_ticket

\* validate_offset up to the return of wait_offset (offset.h:101-104, 77-88):
\* true at once without strict serialization or for ticket 1, else spin
\* until the previous ticket is published
WaitOffset(w) ==
  /\ UNCHANGED notOff
  /\ opc[w] = "wait"
  /\ LET prev_ticket == oargs[w].ticket - 1
     IN IF ~strict_offset_serial \/ prev_ticket = 0
          THEN opc' = [opc EXCEPT ![w] = "release"]
          ELSE /\ TicketPublished(queues[SlotOf(prev_ticket)], prev_ticket)
               /\ opc' = [opc EXCEPT ![w] = "validate"]
  /\ UNCHANGED <<strict_offset_serial, mgr_offset, next_ticket, queues,
                 ostream,
                 oargs, released>>

\* the comparison of validate_offset (offset.h:105)
CursorBeforeAlways(prev, cursor) == TRUE

CursorBefore(prev, cursor) == prev < cursor

\* validate_offset after wait_offset: read the slot's cursor and compare;
\* on false the caller redoes the append
ValidateOffset(w) ==
  /\ UNCHANGED notOff
  /\ opc[w] = "validate"
  /\ opc' = [opc EXCEPT ![w] =
       IF CursorBefore(queues[SlotOf(oargs[w].ticket - 1)].cursor,
                       oargs[w].cursor)
         THEN "release"
         ELSE "append"]
  /\ UNCHANGED <<strict_offset_serial, mgr_offset, next_ticket, queues,
                 ostream,
                 oargs, released>>

\* release_offset, first store (offset.h:118-120): the cursor
ReleaseOffsetCursor(w) ==
  /\ UNCHANGED notOff
  /\ opc[w] = "release"
  /\ IF ~strict_offset_serial
       THEN /\ opc' = [opc EXCEPT ![w] = "done"]
            /\ released' = released \cup
                 {[ticket |-> oargs[w].ticket, cursor |-> oargs[w].cursor]}
            /\ UNCHANGED queues
       ELSE /\ queues' = [queues EXCEPT
                 ![SlotOf(oargs[w].ticket)].cursor = oargs[w].cursor]
            /\ opc' = [opc EXCEPT ![w] = "publish"]
            /\ UNCHANGED released
  /\ UNCHANGED <<strict_offset_serial, mgr_offset, next_ticket, ostream,
                 oargs>>

\* release_offset, second store (offset.h:121): the ticket, with release order
ReleaseOffsetTicket(w) ==
  /\ UNCHANGED notOff
  /\ opc[w] = "publish"
  /\ queues' = [queues EXCEPT
       ![SlotOf(oargs[w].ticket)].ticket = oargs[w].ticket]
  /\ released' = released \cup
       {[ticket |-> oargs[w].ticket, cursor |-> oargs[w].cursor]}
  /\ opc' = [opc EXCEPT ![w] = "done"]
  /\ UNCHANGED <<strict_offset_serial, mgr_offset, next_ticket, ostream,
                 oargs>>

InitOffset ==
  /\ IdleShm
  /\ IdleNu
  /\ IdleShim
  /\ IdleBitmap
  /\ IdleTx
  /\ IdleFile
  /\ strict_offset_serial \in BOOLEAN
  /\ mgr_offset = 0
  /\ next_ticket = 1
  /\ queues = [i \in 0..(NUM_OFFSET_QUEUE_SLOT - 1) |-> EmptySlot]
  /\ ostream = <<>>
  /\ opc = [w \in OffsetCallers |-> "idle"]
  /\ oargs = [w \in OffsetCallers |-> NoOffsetArgs]
  /\ released = {}

NextOffset ==
  \E w \in OffsetCallers :
    \/ AcquireOffset(w)
    \/ TxAppend(w)
    \/ WaitOffset(w)
    \/ ValidateOffset(w)
    \/ ReleaseOffsetCursor(w)
    \/ ReleaseOffsetTicket(w)

SpecOffset == InitOffset /\ [][NextOffset]_vars

\* the position of the last commit entry of a ticket in the tx stream
LastEntryOf(ticket) ==
  LET at == {i \in DOMAIN ostream : ostream[i] = ticket}
  IN IF at = {} THEN 0 ELSE CHOOSE i \in at : \A j \in at : j <= i

\* C7: with strict serialization, for released tickets t1 < t2 the cursor
\* published for t1 is not after the one published for t2, and the last
\* commit entry of t2 is behind the last one of t1 in the stream, so that a
\* replay leaves the bytes of t2 where both wrote.
C7_TicketOrder ==
  strict_offset_serial =>
    \A r1, r2 \in released :
      r1.ticket < r2.ticket =>
        /\ r1.cursor <= r2.cursor
        /\ LastEntryOf(r1.ticket) < LastEntryOf(r2.ticket)

\* two released tickets of which the later one had appended first and so
\* had to redo its append
C7_Witness ==
  /\ strict_offset_serial
  /\ \E r1, r2 \in released :
       /\ r1.ticket < r2.ticket
       /\ \E i \in DOMAIN ostream : ostream[i] = r2.ticket /\ i < r1.cursor

-----------------------------------------------------------------------------
(* Further properties of BitmapBlock::alloc *)

\* calls of alloc and alloc_batch made so far
AllocCallsMade == SumOver(acalls, AllocThreads)

\* C16: alloc fails (returns -1) only when every word of the block is fully
\* allocated: when a single call, with no other thread allocating, has
\* returned -1, no bit of the block is free.
C16_FailsOnlyWhenFull ==
  \A h \in handed :
    (AllocCallsMade = 1 /\ h.kind = "alloc" /\ h.r = 0 - 1)
      => \A i \in DOMAIN bitmaps : bitmaps[i] = BITMAP_ALL_USED

\* C20: a successful alloc changes its word from the observed b to
\* b | (~b & (b + 1)) and returns the index of the bit it set.
C20_AllocStep ==
  \A t \in AllocThreads :
    (apc[t] = "a_cas" /\ apc'[t] = "idle") =>
      /\ bitmaps'[aidx[t]] = BitOr(ab[t], allocated(ab[t]))
      /\ \E h \in handed' \ handed :
           h.r = FirstBitOf(aidx[t]) + countr_zero(allocated(ab[t]))

C20_SetsLowestZeroBit == [][C20_AllocStep]_vars

-----------------------------------------------------------------------------
(* Further properties of OffsetMgr under concurrent relative writes *)

\* C12: with strict serialization, wait_offset(ticket) for ticket > 1 has
\* returned (the caller is about to read the slot's cursor) only if
\* release_offset(ticket - 1, c) has published ticket - 1 in slot
\* (ticket - 1) mod NUM_OFFSET_QUEUE_SLOT, and the slot's cursor is that c;
\* for ticket 1 no slot is returned.
C12_WaitSeesRelease ==
  \A w \in OffsetCallers :
    opc[w] = "validate" =>
      /\ strict_offset_serial
      /\ oargs[w].ticket > 1
      /\ \E r \in released :
           /\ r.ticket = oargs[w].ticket - 1
           /\ queues[SlotOf(r.ticket)].ticket = r.ticket
           /\ queues[SlotOf(r.ticket)].cursor = r.cursor

\* wait_offset has returned the slot of ticket 2 to the holder of ticket 3
\* (the ring of two slots is in its second round)
C12_Witness ==
  \E w \in OffsetCallers :
    /\ opc[w] = "validate"
    /\ oargs[w].ticket = NUM_OFFSET_QUEUE_SLOT + 1
    /\ \E r \in released : r.ticket = NUM_OFFSET_QUEUE_SLOT

\* the callers that hold a ticket
Holders == {w \in OffsetCallers : oargs[w].ticket > 0}

\* C14: the tickets issued are 1, 2, 3, ... without gaps or repeats, and
\* while no call was clamped the ranges [old_offset, old_offset + count)
\* follow each other in ticket order: the offset has advanced by the sum of
\* the counts (by 2 for two writes of 1 byte).
C14_TicketsAndRanges ==
  /\ {oargs[w].ticket : w \in Holders} = 1..(next_ticket - 1)
  /\ \A u, w \in Holders : u # w => oargs[u].ticket # oargs[w].ticket
  /\ (\A w \in Holders : ~oargs[w].clamped) =>
       /\ \A w \in Holders :
            /\ oargs[w].count = oargs[w].req
            /\ oargs[w].ticket = 1 => oargs[w].old_offset = 0
            /\ \A u \in Holders :
                 oargs[u].ticket = oargs[w].ticket + 1 =>
                   oargs[u].old_offset = oargs[w].old_offset + oargs[w].count
       /\ mgr_offset = SumOver([w \in OffsetCallers |-> oargs[w].count],
                               OffsetCallers)

\* two relative writes of 1 byte have been given their offsets and the
\* offset is 2
C14_Witness ==
  /\ Cardinality(Holders) = 2
  /\ \A w \in Holders : oargs[w].req = 1 /\ ~oargs[w].clamped
  /\ mgr_offset = 2

-----------------------------------------------------------------------------
(* OffsetMgr's operations, one call on an OffsetMgr in any state its
   interface can produce: seek_relative, acquire_offset, validate_offset *)

\* the largest ticket and cursor a slot has published
MaxTicket == 3
MaxCursor == 2

\* a uint64_t value read as int64_t, and an int64_t converted to uint64_t
ToSigned(x) == IF x >= SIZE_MOD \div 2 THEN x - SIZE_MOD ELSE x
ToUnsigned(x) == x % SIZE_MOD

\* the offsets, movements, counts and file sizes of the calls: small values
\* and the values around the ends of the 64-bit ranges (scaled)
OffsetValues ==
  {0, 1, 2, SIZE_MOD \div 4, SIZE_MOD \div 2 - 1, SIZE_MOD \div 2,
   SIZE_MOD - 1}
RelValues ==
  {0 - (SIZE_MOD \div 2), 0 - 2, 0 - 1, 0, 1, SIZE_MOD \div 4,
   SIZE_MOD \div 2 - 1}
CountValues == {0, 1, 2, SIZE_MOD - 1}
SizeValues == {0, 1, 2}

\* what release_offset can have left in slot i
SlotStates(i) ==
  {EmptySlot} \cup
  {[ticket |-> t, cursor |-> c] :
     t \in {x \in 1..MaxTicket : SlotOf(x) = i}, c \in 0..MaxCursor}

NoCall ==
  [op |-> "none", rel |-> 0, req |-> 0, file_size |-> 0, stop |-> FALSE,
   ticket |-> 0, cursor |-> 0, prev |-> 0, old |-> 0, count |-> 0,
   ret |-> 0, ok |-> FALSE]

\* seek_relative (offset.h:42-46): int64_t new_offset = offset + rel_offset
SeekNewOffset(rel_offset) ==
  ToSigned((mgr_offset + ToUnsigned(rel_offset)) % SIZE_MOD)

\* if (new_offset < 0) return -1
SeekInvalidNever(new_offset) == FALSE

SeekInvalid(new_offset) == new_offset < 0

SeekRelative ==
  /\ UNCHANGED notOff
  /\ oargs.op = "none"
  /\ \E rel_offset \in RelValues :
       LET new_offset == SeekNewOffset(rel_offset)
       IN IF SeekInvalid(new_offset)
            THEN /\ UNCHANGED mgr_offset
                 /\ oargs' = [oargs EXCEPT !.op = "seek_relative",
                                !.rel = rel_offset, !.old = mgr_offset,
                                !.ret = 0 - 1]
            \* return seek_absolute(new_offset): offset = abs_offset
            ELSE /\ mgr_offset' = ToUnsigned(new_offset)
                 /\ oargs' = [oargs EXCEPT !.op = "seek_relative",
                                !.rel = rel_offset, !.old = mgr_offset,
                                !.ret = ToSigned(ToUnsigned(new_offset))]
  /\ UNCHANGED <<strict_offset_serial, next_ticket, queues, ostream, opc,
                 released>>

\* one call of acquire_offset, with its arguments and results kept
AcquireOffsetCall ==
  /\ UNCHANGED notOff
  /\ oargs.op = "none"
  /\ \E count \in CountValues, file_size \in SizeValues,
        stop_at_boundary \in BOOLEAN :
       /\ mgr_offset' = AcquiredOffset(count, file_size, stop_at_boundary)
       /\ oargs' = [oargs EXCEPT !.op = "acquire_offset",
                      !.req = count, !.file_size = file_size,
                      !.stop = stop_at_boundary, !.old = mgr_offset,
                      !.count = AcquiredCount(count, file_size,
                                              stop_at_boundary),
                      !.ret = mgr_offset,
                      !.ticket = next_ticket]
  /\ next_ticket' = next_ticket + 1
  /\ UNCHANGED <<strict_offset_serial, queues, ostream, opc, released>>

\* the value validate_offset returns once wait_offset has returned
\* (offset.h:98-107)
ValidateResult(ticket, cursor) ==
  IF ~strict_offset_serial THEN TRUE
  ELSE IF ticket - 1 = 0 THEN TRUE
  ELSE CursorBefore(queues[SlotOf(ticket - 1)].cursor, cursor)

\* one call of validate_offset that returns: the previous ticket, if it is
\* waited for, is published
ValidateOffsetCall ==
  /\ UNCHANGED notOff
  /\ oargs.op = "none"
  /\ \E ticket \in 1..(MaxTicket + 1), cursor \in 0..MaxCursor :
       /\ \/ ~strict_offset_serial
          \/ ticket - 1 = 0
          \/ TicketPublished(queues[SlotOf(ticket - 1)], ticket - 1)
       /\ oargs' = [oargs EXCEPT !.op = "validate_offset",
                      !.ticket = ticket, !.cursor = cursor,
                      !.prev = queues[SlotOf(ticket - 1)].cursor,
                      !.ok = ValidateResult(ticket, cursor)]
  /\ UNCHANGED <<strict_offset_serial, mgr_offset, next_ticket, queues,
                 ostream, opc, released>>

InitOffsetFn ==
  /\ IdleShm
  /\ IdleNu
  /\ IdleShim
  /\ IdleBitmap
  /\ IdleTx
  /\ IdleFile
  /\ strict_offset_serial \in BOOLEAN
  /\ mgr_offset \in OffsetValues
  /\ queues \in {q \in [0..(NUM_OFFSET_QUEUE_SLOT - 1) ->
                          UNION {SlotStates(i) :
                                   i \in 0..(NUM_OFFSET_QUEUE_SLOT - 1)}] :
                   \A i \in DOMAIN q : q[i] \in SlotStates(i)}
  /\ next_ticket = MaxTicket + 1
  /\ ostream = <<>>
  /\ opc = <<>>
  /\ oargs = NoCall
  /\ released = {}

NextOffsetFn ==
  \/ SeekRelative
  \/ AcquireOffsetCall
  \/ ValidateOffsetCall

SpecOffsetFn == InitOffsetFn /\ [][NextOffsetFn]_vars

\* C11: with strict serialization and ticket > 1, validate_offset(ticket,
\* cursor) returns true if and only if the cursor published for ticket - 1
\* is less than or equal to cursor (true, in particular, when they are equal).
C11_ValidateIffNotAfter ==
  (oargs.op = "validate_offset" /\ strict_offset_serial /\ oargs.ticket > 1)
    => (oargs.ok <=> oargs.prev <= oargs.cursor)

\* C13: acquire_offset with stop_at_boundary returns the old offset, writes
\* back a count not larger than the requested one, and leaves the offset at
\* old offset + that count (in uint64_t arithmetic) and not beyond file_size.
C13_ClampedAcquire ==
  (oargs.op = "acquire_offset" /\ oargs.stop) =>
    /\ oargs.ret = oargs.old
    /\ oargs.count <= oargs.req
    /\ mgr_offset = (oargs.old + oargs.count) % SIZE_MOD
    /\ mgr_offset <= oargs.file_size

\* C15 as stated: seek_relative returns -1 exactly when offset + rel is
\* negative, leaving the offset as it was; otherwise the offset becomes the
\* sum and the sum is returned.
C15_ErrorIffNegative ==
  oargs.op = "seek_relative" =>
    IF oargs.old + oargs.rel < 0
      THEN oargs.ret = 0 - 1 /\ mgr_offset = oargs.old
      ELSE oargs.ret = oargs.old + oargs.rel
           /\ mgr_offset = oargs.old + oargs.rel

\* C15 as amended: seek_relative returns -1, leaving the offset as it was,
\* exactly when the 64-bit sum offset + rel read as int64_t is negative (the
\* sum is negative, or it is 2^63 or more and does not fit the result);
\* otherwise the offset becomes the sum and the sum is returned.
C15_ErrorIffNotInt64 ==
  oargs.op = "seek_relative" =>
    LET sum == (oargs.old + oargs.rel) % SIZE_MOD
    IN IF sum >= SIZE_MOD \div 2
         THEN oargs.ret = 0 - 1 /\ mgr_offset = oargs.old
         ELSE oargs.ret = sum /\ mgr_offset = sum

\* a seek_relative whose sum is positive and too large for int64_t has
\* returned -1
C15_Witness ==
  /\ oargs.op = "seek_relative"
  /\ oargs.old < SIZE_MOD \div 2
  /\ oargs.old + oargs.rel >= SIZE_MOD \div 2
  /\ oargs.ret = 0 - 1
  /\ mgr_offset = oargs.old

-----------------------------------------------------------------------------
(* The POSIX shim, lib.cpp: open, close and the calls it dispatches *)

\* the largest descriptor the kernel hands out, and the calls made
MaxFd == 2
MaxShimCalls == 4

Fds == 0..MaxFd

\* the calls that are dispatched on get_file (lib.cpp:51-99)
ShimOps == {"write", "read", "lseek", "pwrite", "pread"}

NoDispatch == [op |-> "none", fd |-> 0, core |-> FALSE, file |-> 0,
               was_live |-> FALSE, live_file |-> 0]

\* the function with one more, or one less, pair
MapPut(f, k, v) == [x \in DOMAIN f \cup {k} |-> IF x = k THEN v ELSE f[x]]
MapDrop(f, k) == [x \in DOMAIN f \ {k} |-> f[x]]

\* the descriptor posix::open returns: the lowest one not open
LowestFree == CHOOSE fd \in Fds \ kernel_fds :
                \A other \in Fds \ kernel_fds : fd <= other

\* get_file (lib.cpp:11-15): the File of fd, or 0 for nullptr
get_file_never(fd) == 0

get_file(fd) == IF fd \in DOMAIN files THEN files[fd] ELSE 0

\* open (lib.cpp:18-40): the File constructor opens the path; the File is
\* valid or not; only a valid one is registered
ShimOpen ==
  /\ UNCHANGED notShim
  /\ shim_calls < MaxShimCalls
  /\ shim_calls' = shim_calls + 1
  /\ nfiles' = nfiles + 1
  /\ disp' = NoDispatch
  /\ IF Fds \ kernel_fds = {}
       \* the kernel's open fails: fd = -1, the File is not valid
       THEN UNCHANGED <<files, kernel_fds, live, closed_fds>>
       ELSE \E is_valid \in BOOLEAN :
              /\ kernel_fds' = kernel_fds \cup {LowestFree}
              /\ closed_fds' = closed_fds \ {LowestFree}
              /\ IF is_valid
                   THEN /\ files' = MapPut(files, LowestFree, nfiles + 1)
                        /\ live' = MapPut(live, LowestFree, nfiles + 1)
                   ELSE UNCHANGED <<files, live>>

\* close (lib.cpp:42-50): erase from the registry, or else posix::close
ShimClose ==
  /\ UNCHANGED notShim
  /\ shim_calls < MaxShimCalls
  /\ shim_calls' = shim_calls + 1
  /\ disp' = NoDispatch
  /\ \E fd \in Fds :
       /\ live' = MapDrop(live, fd)
       /\ closed_fds' = IF fd \in DOMAIN live
                          THEN closed_fds \cup {fd}
                          ELSE closed_fds
       /\ IF fd \in DOMAIN files
            THEN /\ files' = MapDrop(files, fd)
                 /\ UNCHANGED kernel_fds
            ELSE /\ kernel_fds' = kernel_fds \ {fd}
                 /\ UNCHANGED files
  /\ UNCHANGED nfiles

\* write, read, lseek, pwrite, pread (lib.cpp:52-100)
ShimCall ==
  /\ UNCHANGED notShim
  /\ shim_calls < MaxShimCalls
  /\ shim_calls' = shim_calls + 1
  /\ \E op \in ShimOps, fd \in Fds :
       disp' = [op |-> op, fd |-> fd,
                core |-> get_file(fd) # 0,
                file |-> get_file(fd),
                was_live |-> fd \in DOMAIN live,
                live_file |-> IF fd \in DOMAIN live THEN live[fd] ELSE 0]
  /\ UNCHANGED <<files, kernel_fds, nfiles, live, closed_fds>>

InitShim ==
  /\ IdleShm
  /\ IdleNu
  /\ IdleBitmap
  /\ IdleTx
  /\ IdleFile
  /\ IdleOffset
  /\ files = <<>>
  /\ kernel_fds = {}
  /\ nfiles = 0
  /\ live = <<>>
  /\ closed_fds = {}
  /\ disp = NoDispatch
  /\ shim_calls = 0

NextShim ==
  \/ ShimOpen
  \/ ShimClose
  \/ ShimCall

SpecShim == InitShim /\ [][NextShim]_vars

\* C19: a descriptor is in the registry exactly when a valid open returned
\* it and it was not closed since; read, write, pread, pwrite and lseek go
\* to the File of that open for such a descriptor and to the kernel for any
\* other, so after close(fd) every call on fd goes to the kernel.
C19_RegistryMatchesOpens ==
  /\ files = live
  /\ disp.op \in ShimOps =>
       /\ disp.core <=> disp.was_live
       /\ disp.file = disp.live_file

\* a descriptor was opened as a valid File and closed, and a later call on
\* it went to the kernel, while another descriptor is registered
C19_Witness ==
  /\ disp.op \in ShimOps
  /\ ~disp.core
  /\ disp.fd \in closed_fds
  /\ files # <<>>

-----------------------------------------------------------------------------
(* BlkTable::need_update, btable.h:72-90, running next to the committers of
   TxMgr and to BlkTable::update (under the spinlock), over the chain of tx
   blocks.  Every block of the chain, the meta block's inline region
   included, has NUM_TX_ENTRY slots here. *)

NumTxBlocks == 3
MaxCommits == 6
MaxNeedUpdateCalls == 2

TxBlocks == 0..(NumTxBlocks - 1)

EmptyTxBlock == [entries |-> [i \in 0..(NUM_TX_ENTRY - 1) |-> 0], next |-> 0]

TxCursor(b, i) == [block_idx |-> b, local_idx |-> i]

\* the block Allocator::alloc hands out for a new tx block
FreshTxBlock ==
  CHOOSE b \in TxBlocks \ tx_bitmap : \A c \in TxBlocks \ tx_bitmap : b <= c

\* the chain with block nb linked behind block b
LinkNext(b, nb) == [tx_chain EXCEPT ![b].next = nb]

RECURSIVE ScanFrom(_, _)
\* the first zero slot at or behind slot i of block b, following next; at
\* the end of the chain the cursor stays at local_idx = NUM_TX_ENTRY
ScanFrom(b, i) ==
  IF i >= NUM_TX_ENTRY
    THEN IF tx_chain[b].next = 0
           THEN TxCursor(b, i)
           ELSE ScanFrom(tx_chain[b].next, 0)
    ELSE IF tx_chain[b].entries[i] = 0
           THEN TxCursor(b, i)
           ELSE ScanFrom(b, i + 1)

\* the entries placed in the chain
PlacedEntries ==
  {c \in TxBlocks \X (0..(NUM_TX_ENTRY - 1)) :
     tx_chain[c[1]].entries[c[2]] # 0}

\* a committer places a commit entry at the tail, after linking a fresh
\* block if the last one is full
TxCommit ==
  /\ UNCHANGED notNu
  /\ ncommits < MaxCommits
  /\ ncommits' = ncommits + 1
  /\ LET c == ScanFrom(0, 0)
     IN IF c.local_idx < NUM_TX_ENTRY
          THEN /\ tx_chain' = [tx_chain EXCEPT
                    ![c.block_idx].entries[c.local_idx] = ncommits + 1]
               /\ UNCHANGED tx_bitmap
          ELSE /\ TxBlocks \ tx_bitmap # {}
               /\ tx_bitmap' = tx_bitmap \cup {FreshTxBlock}
               /\ tx_chain' = [LinkNext(c.block_idx, FreshTxBlock) EXCEPT
                    ![FreshTxBlock].entries[0] = ncommits + 1]
  /\ UNCHANGED <<tail_tx_idx, tail_tx_block, bt_file_size, nu_pc, nu_loc,
                 nu_calls>>

\* BlkTable::update: apply the entries from the tail on and publish the new
\* (cursor, block, file size) in one step; each write grows the file by one
BtUpdate ==
  /\ UNCHANGED notNu
  /\ LET c == ScanFrom(tail_tx_idx.block_idx, tail_tx_idx.local_idx)
     IN /\ c # tail_tx_idx
        /\ tail_tx_idx' = c
        /\ tail_tx_block' = c.block_idx
        /\ bt_file_size' = Cardinality(PlacedEntries)
  /\ UNCHANGED <<tx_chain, tx_bitmap, ncommits, nu_pc, nu_loc, nu_calls>>

NoNuLocals ==
  [do_alloc |-> FALSE, tx_idx |-> TxCursor(0, 0), tx_block |-> 0,
   f_size |-> 0, tx_idx2 |-> TxCursor(0, 0), tx_block2 |-> 0,
   agree |-> FALSE, ret |-> FALSE, tail_valid |-> FALSE]

\* whether the slot at the published tail cursor, after following next on
\* index overflow, holds an entry
TailEntryValid ==
  IF tail_tx_idx.local_idx >= NUM_TX_ENTRY
    THEN /\ tx_chain[tail_tx_block].next # 0
         /\ tx_chain[tx_chain[tail_tx_block].next].entries[0] # 0
    ELSE tx_chain[tail_tx_block].entries[tail_tx_idx.local_idx] # 0

\* need_update returns r
NuReturn(r) ==
  /\ nu_pc' = "done"
  /\ nu_loc' = [nu_loc EXCEPT !.ret = r, !.tail_valid = TailEntryValid]

\* btable.h:74  tx_idx = tail_tx_idx.load()
NuLoadIdx ==
  /\ UNCHANGED notNu
  /\ nu_pc \in {"idle", "done"}
  /\ nu_calls < MaxNeedUpdateCalls
  /\ nu_calls' = nu_calls + 1
  /\ \E do_alloc \in BOOLEAN :
       nu_loc' = [NoNuLocals EXCEPT !.do_alloc = do_alloc,
                                    !.tx_idx = tail_tx_idx]
  /\ nu_pc' = "load_block"
  /\ UNCHANGED <<tx_chain, tx_bitmap, tail_tx_idx, tail_tx_block,
                 bt_file_size, ncommits>>

\* btable.h:75  tx_block = tail_tx_block.load()
NuLoadBlock ==
  /\ UNCHANGED notNu
  /\ nu_pc = "load_block"
  /\ nu_loc' = [nu_loc EXCEPT !.tx_block = tail_tx_block]
  /\ nu_pc' = "load_size"
  /\ UNCHANGED <<tx_chain, tx_bitmap, tail_tx_idx, tail_tx_block,
                 bt_file_size, ncommits, nu_calls>>

\* btable.h:76-78  f_size = file_size.load(); fence
NuLoadSize ==
  /\ UNCHANGED notNu
  /\ nu_pc = "load_size"
  /\ nu_loc' = [nu_loc EXCEPT !.f_size = bt_file_size]
  /\ nu_pc' = "load_idx2"
  /\ UNCHANGED <<tx_chain, tx_bitmap, tail_tx_idx, tail_tx_block,
                 bt_file_size, ncommits, nu_calls>>

\* btable.h:80  tx_idx2 = tail_tx_idx.load()
NuLoadIdx2 ==
  /\ UNCHANGED notNu
  /\ nu_pc = "load_idx2"
  /\ nu_loc' = [nu_loc EXCEPT !.tx_idx2 = tail_tx_idx]
  /\ nu_pc' = "load_block2"
  /\ UNCHANGED <<tx_chain, tx_bitmap, tail_tx_idx, tail_tx_block,
                 bt_file_size, ncommits, nu_calls>>

\* btable.h:81  tx_block2 = tail_tx_block.load()
NuLoadBlock2 ==
  /\ UNCHANGED notNu
  /\ nu_pc = "load_block2"
  /\ nu_loc' = [nu_loc EXCEPT !.tx_block2 = tail_tx_block]
  /\ nu_pc' = "load_size2"
  /\ UNCHANGED <<tx_chain, tx_bitmap, tail_tx_idx, tail_tx_block,
                 bt_file_size, ncommits, nu_calls>>

\* btable.h:82-85  f_size2 = file_size.load(); if any pair differs return true
NuLoadSize2 ==
  /\ UNCHANGED notNu
  /\ nu_pc = "load_size2"
  /\ IF \/ nu_loc.tx_idx # nu_loc.tx_idx2
        \/ nu_loc.tx_block # nu_loc.tx_block2
        \/ nu_loc.f_size # bt_file_size
       THEN NuReturn(TRUE)
       ELSE /\ nu_loc' = [nu_loc EXCEPT !.agree = TRUE]
            /\ nu_pc' = "overflow"
  /\ UNCHANGED <<tx_chain, tx_bitmap, tail_tx_idx, tail_tx_block,
                 bt_file_size, ncommits, nu_calls>>

\* btable.h:86  if (!tx_mgr->handle_idx_overflow(tx_idx, tx_block, do_alloc))
\* return false: at the end of a block follow next; without a next block
\* give up, or with do_alloc link a fresh block
NuHandleIdxOverflow ==
  /\ UNCHANGED notNu
  /\ nu_pc = "overflow"
  /\ IF nu_loc.tx_idx.local_idx < NUM_TX_ENTRY
       THEN /\ nu_pc' = "entry"
            /\ UNCHANGED <<nu_loc, tx_chain, tx_bitmap>>
       ELSE IF tx_chain[nu_loc.tx_block].next # 0
         THEN /\ nu_loc' = [nu_loc EXCEPT
                   !.tx_idx = TxCursor(tx_chain[nu_loc.tx_block].next, 0),
                   !.tx_block = tx_chain[nu_loc.tx_block].next]
              /\ nu_pc' = "entry"
              /\ UNCHANGED <<tx_chain, tx_bitmap>>
         ELSE IF ~nu_loc.do_alloc
           THEN /\ NuReturn(FALSE)
                /\ UNCHANGED <<tx_chain, tx_bitmap>>
           ELSE /\ TxBlocks \ tx_bitmap # {}
                /\ tx_bitmap' = tx_bitmap \cup {FreshTxBlock}
                /\ tx_chain' = LinkNext(nu_loc.tx_block, FreshTxBlock)
                /\ nu_loc' = [nu_loc EXCEPT
                     !.tx_idx = TxCursor(FreshTxBlock, 0),
                     !.tx_block = FreshTxBlock]
                /\ nu_pc' = "entry"
  /\ UNCHANGED <<tail_tx_idx, tail_tx_block, bt_file_size, ncommits,
                 nu_calls>>

\* TxEntry::is_valid: the 64-bit word is not zero
is_valid_never(entry) == FALSE

is_valid(entry) == entry # 0

\* btable.h:89  return get_entry_from_block(tx_idx, tx_block).is_valid()
NuGetEntry ==
  /\ UNCHANGED notNu
  /\ nu_pc = "entry"
  /\ NuReturn(is_valid(tx_chain[nu_loc.tx_block]
                         .entries[nu_loc.tx_idx.local_idx]))
  /\ UNCHANGED <<tx_chain, tx_bitmap, tail_tx_idx, tail_tx_block,
                 bt_file_size, ncommits, nu_calls>>

InitNu ==
  /\ IdleShm
  /\ IdleBitmap
  /\ IdleTx
  /\ IdleFile
  /\ IdleOffset
  /\ IdleShim
  /\ tx_chain = [b \in TxBlocks |-> EmptyTxBlock]
  /\ tx_bitmap = {0}
  /\ tail_tx_idx = TxCursor(0, 0)
  /\ tail_tx_block = 0
  /\ bt_file_size = 0
  /\ ncommits = 0
  /\ nu_pc = "idle"
  /\ nu_loc = NoNuLocals
  /\ nu_calls = 0

NextNu ==
  \/ TxCommit
  \/ BtUpdate
  \/ NuLoadIdx
  \/ NuLoadBlock
  \/ NuLoadSize
  \/ NuLoadIdx2
  \/ NuLoadBlock2
  \/ NuLoadSize2
  \/ NuHandleIdxOverflow
  \/ NuGetEntry

SpecNu == InitNu /\ [][NextNu]_vars

\* C17: no step of need_update, with do_alloc false or true, changes the
\* published tail cursor, tail block and file size, the tx log (entries and
\* next pointers) or the allocation bitmap.
C17_NeedUpdateStep ==
  nu_pc' # nu_pc =>
    UNCHANGED <<tail_tx_idx, tail_tx_block, bt_file_size, tx_chain,
                tx_bitmap>>

C17_NeedUpdateReadsOnly == [][C17_NeedUpdateStep]_vars

\* C18: need_update returns false only when its two loads of (cursor, tx
\* block, file size) agreed and the slot at the published tail cursor, after
\* following next on index overflow, holds no entry: whenever that slot holds
\* an entry, need_update returns true.
C18_NoMissedCommit ==
  (nu_pc = "done" /\ ~nu_loc.ret) =>
    /\ nu_loc.agree
    /\ ~nu_loc.tail_valid

\* need_update has followed the next pointer of a full block and returned
\* false for the empty slot behind it
C18_Witness ==
  /\ nu_pc = "done"
  /\ ~nu_loc.ret
  /\ nu_loc.tx_idx.block_idx # 0
  /\ tail_tx_idx.local_idx = NUM_TX_ENTRY

-----------------------------------------------------------------------------
(* Monotonicity of the bitmap words *)

\* the words a step has changed
ChangedWords == {i \in DOMAIN bitmaps : bitmaps'[i] # bitmaps[i]}

\* C21: bitmap bits are monotonic: in every step of every interleaving of
\* alloc and alloc_batch a bit that is set stays set, and a step of
\* alloc_batch that changes a word changes it from 0 to all ones.
C21_BitsStep ==
  /\ \A i \in DOMAIN bitmaps : \A k \in 0..(WordBits - 1) :
       Bit(bitmaps[i], k) = 1 => Bit(bitmaps'[i], k) = 1
  /\ \A t \in AllocThreads :
       apc[t] = "b_cas" /\ apc'[t] # "b_cas" =>
         \A i \in ChangedWords :
           bitmaps[i] = 0 /\ bitmaps'[i] = BITMAP_ALL_USED

C21_BitsMonotonic == [][C21_BitsStep]_vars

-----------------------------------------------------------------------------
(* Further properties of TxLogBlock::try_commit *)

\* the slots of the arena from a hint on
SlotsFrom(hint) == {s \in DOMAIN tx_entries : s >= hint}

\* C22: a call of try_commit that returned an index returned the index of a
\* slot not before its hint that holds its entry, and a call that returned
\* -1 left no zero slot at or behind its hint in the arena of NUM_TX_ENTRY
\* slots.
C22_FailsOnlyWhenArenaFull ==
  \A p \in placed :
    IF p.idx >= 0
      THEN p.idx >= p.hint /\ tx_entries[p.idx] = p.entry
      ELSE \A s \in SlotsFrom(p.hint) : tx_entries[s] # 0

-----------------------------------------------------------------------------
(* Progress of the bitmap allocator *)

\* the steps a thread takes inside a call of alloc or alloc_batch
InCallStep(t) ==
  \/ AllocLoad(t)
  \/ AllocCas(t)
  \/ BatchLoad(t)
  \/ BatchCas(t)

\* fair scheduling: a thread inside a call is not suspended for ever
SpecBitmapFair ==
  /\ InitBitmap
  /\ [][NextBitmap]_vars
  /\ \A t \in AllocThreads : WF_vars(InCallStep(t))

\* the compare-exchanges of other threads that succeeded on the word of
\* thread t since t loaded it
WinsSinceLoad(t) ==
  {h \in handed \ aseen[t] : h.by # t /\ h.r >= 0 /\ h.word = aidx[t]}

\* a step in which the compare-exchange of thread t fails
CasFails(t) ==
  \/ apc[t] = "a_cas" /\ apc'[t] = "a_load"
  \/ apc[t] = "b_cas" /\ apc'[t] = "b_load"

C23_FailedCasStep ==
  \A t \in AllocThreads : CasFails(t) => WinsSinceLoad(t) # {}

\* C23: the allocator is lock-free: a compare-exchange fails only after the
\* compare-exchange of another thread has succeeded on the same word since
\* the load, and under fair scheduling every call of alloc and alloc_batch
\* returns.
C23_LockFree ==
  /\ [][C23_FailedCasStep]_vars
  /\ \A t \in AllocThreads : (apc[t] # "idle") ~> (apc[t] = "idle")

\* a thread of alloc holds a value of its word that another thread's
\* alloc_batch has replaced since: its compare-exchange is about to fail
C23_Witness ==
  \E t \in AllocThreads :
    /\ apc[t] = "a_cas"
    /\ ~CasSucceeds(bitmaps[aidx[t]], ab[t])
    /\ \E h \in WinsSinceLoad(t) : h.kind = "batch"

-----------------------------------------------------------------------------
(* try_commit with callers that keep the hint at or before the tail *)

\* the index of the first zero slot of the block, NUM_TX_ENTRY when full
FirstZeroSlot ==
  LET zeros == {s \in DOMAIN tx_entries : tx_entries[s] = 0}
  IN IF zeros = {} THEN NUM_TX_ENTRY
     ELSE CHOOSE s \in zeros : \A z \in zeros : s <= z

\* a call of try_commit whose hint is not beyond the first zero slot
TryCommitCallAtTail(c) ==
  /\ UNCHANGED notTx
  /\ tpc[c] = "idle"
  /\ tcalls[c] < MaxCommitCalls
  /\ \E hint_tail \in 0..FirstZeroSlot :
       /\ tidx' = [tidx EXCEPT ![c] = ScanStart(hint_tail)]
       /\ thint' = [thint EXCEPT ![c] = hint_tail]
  /\ tentry' = [tentry EXCEPT ![c] = EntryOf(c, tcalls[c] + 1)]
  /\ tcalls' = [tcalls EXCEPT ![c] = @ + 1]
  /\ tpc' = [tpc EXCEPT ![c] = "load"]
  /\ UNCHANGED <<tx_entries, placed>>

NextTxAtTail ==
  \E c \in Committers :
    \/ TryCommitCallAtTail(c)
    \/ TryCommitLoad(c)
    \/ TryCommitCas(c)

SpecTxAtTail == InitTx /\ [][NextTxAtTail]_vars

\* C24: with every hint not beyond the first zero slot at the time of the
\* call, no zero slot of the block is followed by a non-zero slot.
C24_Dense ==
  \A s, u \in DOMAIN tx_entries :
    (s < u /\ tx_entries[s] = 0) => tx_entries[u] = 0

\* two calls with the same hint have both placed their entry, the later
\* one in the slot behind the earlier one
C24_Witness ==
  \E p, q \in Succeeded(placed) :
    /\ p.hint = q.hint
    /\ q.idx = p.idx + 1
    /\ tx_entries[p.idx] = p.entry
    /\ tx_entries[q.idx] = q.entry

-----------------------------------------------------------------------------
(* The allocated run of File::overwrite and the image write_data copies *)

\* num_blocks * BLOCK_SIZE - count - start_offset as an integer, before the
\* conversion to uint16_t
Residual(num_blocks, count, start_offset) ==
  num_blocks * BlockSize - count - start_offset

\* C25: when overwrite calls write_data, the num_blocks blocks it allocated
\* hold the whole image: start_offset + count <= num_blocks * BLOCK_SIZE, and
\* the residual of the last block is not negative and fits 16 bits.
C25_RunCoversImage ==
  \A w \in Writers :
    fpc[w] = "write_data" =>
      /\ fargs[w].so + fargs[w].count <= fargs[w].nb * BlockSize
      /\ Residual(fargs[w].nb, fargs[w].count, fargs[w].so) >= 0
      /\ Residual(fargs[w].nb, fargs[w].count, fargs[w].so) < Pow2(16)

-----------------------------------------------------------------------------
(* Progress of the ticket ring *)

\* the steps of a ticket holder after acquire_offset, up to release_offset
HolderStep(w) ==
  \/ TxAppend(w)
  \/ WaitOffset(w)
  \/ ValidateOffset(w)
  \/ ReleaseOffsetCursor(w)
  \/ ReleaseOffsetTicket(w)

\* every ticket holder goes on to its release_offset
SpecOffsetFair ==
  /\ InitOffset
  /\ [][NextOffset]_vars
  /\ \A w \in OffsetCallers : WF_vars(HolderStep(w))

\* the holder of a ticket has not finished looking at the slot of the
\* ticket before its own
StillObserving(w) == opc[w] \in {"append", "wait", "validate"}

\* no later ticket has been stored in the slot of the ticket before the one
\* of caller w
PrevSlotKept(w) ==
  queues[SlotOf(oargs[w].ticket - 1)].ticket <= oargs[w].ticket - 1

-----------------------------------------------------------------------------
(* PerThreadData and ShmMgr::alloc_per_thread_data, shm.h *)

\* threads, of any process mapping the shared memory, that ask for a slot
NumPtdCallers == 3
\* const.h: the number of PerThreadData slots (scaled)
MAX_NUM_THREADS == 2

PtdCallers == 1..NumPtdCallers

PtdSlots == 0..(MAX_NUM_THREADS - 1)

\* a caller that holds no slot
NoSlot == 0 - 1

\* a slot of the freshly created shared memory, and cl after memset(cl, 0)
ZeroSlot ==
  [initialized |-> FALSE, index |-> 0, tx_block_idx |-> 0, mutex |-> "zero"]

\* the two parts of cl that memset clears
PtdParts == {"initialized", "data"}

\* data.initialized.compare_exchange_strong(expected = false, true)
PtdCasSucceedsAnyway(cur) == TRUE

PtdCasSucceeds(cur) == cur = FALSE

\* a thread without a slot enters alloc_per_thread_data: i = 0
AllocPerThreadData(t) ==
  /\ UNCHANGED notShm
  /\ ppc[t] = "idle"
  /\ powned[t] = NoSlot
  /\ pi' = [pi EXCEPT ![t] = 0]
  /\ ppc' = [ppc EXCEPT ![t] = "is_initialized"]
  /\ UNCHANGED <<ptd, powned, pleft>>

\* loop head and is_initialized(); PANIC when no slot is left
IsInitialized(t) ==
  /\ UNCHANGED notShm
  /\ ppc[t] = "is_initialized"
  /\ IF pi[t] >= MAX_NUM_THREADS
       THEN /\ ppc' = [ppc EXCEPT ![t] = "panic"]
            /\ UNCHANGED pi
       ELSE IF ptd[pi[t]].initialized
         THEN /\ pi' = [pi EXCEPT ![t] = @ + 1]
              /\ UNCHANGED ppc
         ELSE /\ ppc' = [ppc EXCEPT ![t] = "initialize"]
              /\ UNCHANGED pi
  /\ UNCHANGED <<ptd, powned, pleft>>

\* initialize(i): the compare-exchange; on failure continue with i + 1
InitializeCas(t) ==
  /\ UNCHANGED notShm
  /\ ppc[t] = "initialize"
  /\ IF PtdCasSucceeds(ptd[pi[t]].initialized)
       THEN /\ ptd' = [ptd EXCEPT ![pi[t]].initialized = TRUE]
            /\ ppc' = [ppc EXCEPT ![t] = "fill"]
            /\ UNCHANGED pi
       ELSE /\ pi' = [pi EXCEPT ![t] = @ + 1]
            /\ ppc' = [ppc EXCEPT ![t] = "is_initialized"]
            /\ UNCHANGED ptd
  /\ UNCHANGED <<powned, pleft>>

\* initialize(i) after the compare-exchange: index, tx_block_idx and the
\* robust mutex; alloc_per_thread_data returns the slot
InitializeFill(t) ==
  /\ UNCHANGED notShm
  /\ ppc[t] = "fill"
  /\ ptd' = [ptd EXCEPT ![pi[t]].index = pi[t],
                        ![pi[t]].tx_block_idx = 0,
                        ![pi[t]].mutex = "robust"]
  /\ powned' = [powned EXCEPT ![t] = pi[t]]
  /\ ppc' = [ppc EXCEPT ![t] = "idle"]
  /\ UNCHANGED <<pi, pleft>>

\* set_tx_block_idx by the thread the slot belongs to
SetTxBlockIdx(t) ==
  /\ UNCHANGED notShm
  /\ ppc[t] = "idle"
  /\ powned[t] # NoSlot
  /\ ptd[powned[t]].tx_block_idx = 0
  /\ ptd' = [ptd EXCEPT ![powned[t]].tx_block_idx = 1]
  /\ UNCHANGED <<ppc, pi, powned, pleft>>

\* reset() by the thread the slot belongs to: pthread_mutex_destroy
ResetDestroy(t) ==
  /\ UNCHANGED notShm
  /\ ppc[t] = "idle"
  /\ powned[t] # NoSlot
  /\ ptd' = [ptd EXCEPT ![powned[t]].mutex = "destroyed"]
  /\ pi' = [pi EXCEPT ![t] = powned[t]]
  /\ powned' = [powned EXCEPT ![t] = NoSlot]
  /\ pleft' = [pleft EXCEPT ![t] = PtdParts]
  /\ ppc' = [ppc EXCEPT ![t] = "memset"]

\* reset(): memset(cl, 0, sizeof(cl)), plain stores that clear the flag and
\* the data in an order the build chooses, next to the other threads
ResetMemset(t) ==
  /\ UNCHANGED notShm
  /\ ppc[t] = "memset"
  /\ \E part \in pleft[t] :
       /\ ptd' = [ptd EXCEPT ![pi[t]] =
            IF part = "initialized"
              THEN [ptd[pi[t]] EXCEPT !.initialized = FALSE]
              ELSE [ZeroSlot EXCEPT
                      !.initialized = ptd[pi[t]].initialized]]
       /\ pleft' = [pleft EXCEPT ![t] = @ \ {part}]
       /\ ppc' = [ppc EXCEPT ![t] =
            IF pleft[t] = {part} THEN "idle" ELSE "memset"]
  /\ UNCHANGED <<pi, powned>>

\* the shared memory as ShmMgr::create leaves it: all zero
InitShm ==
  /\ IdleBitmap
  /\ IdleTx
  /\ IdleFile
  /\ IdleOffset
  /\ IdleShim
  /\ IdleNu
  /\ ptd = [i \in PtdSlots |-> ZeroSlot]
  /\ ppc = [t \in PtdCallers |-> "idle"]
  /\ pi = [t \in PtdCallers |-> 0]
  /\ powned = [t \in PtdCallers |-> NoSlot]
  /\ pleft = [t \in PtdCallers |-> {}]

NextShm ==
  \E t \in PtdCallers :
    \/ AllocPerThreadData(t)
    \/ IsInitialized(t)
    \/ InitializeCas(t)
    \/ InitializeFill(t)
    \/ SetTxBlockIdx(t)
    \/ ResetDestroy(t)
    \/ ResetMemset(t)

SpecShm == InitShm /\ [][NextShm]_vars

\* the callers that have won initialize on slot i and have not reset it
Winners(i) ==
  {t \in PtdCallers : powned[t] = i \/ (ppc[t] = "fill" /\ pi[t] = i)}

\* C27: per-thread slots are exclusive: between resets at most one caller
\* has won initialize on a slot, so no two callers hold the same slot, and
\* a slot that is held is marked initialized.
C27_SlotsExclusive ==
  \A i \in PtdSlots :
    /\ Cardinality(Winners(i)) <= 1
    /\ Winners(i) # {} => ptd[i].initialized

\* two callers raced for a slot: one was returned it, the other found it
\* uninitialized before that and is about to fail its compare-exchange
C27_Witness ==
  \E t, u \in PtdCallers :
    /\ t # u
    /\ powned[t] # NoSlot
    /\ ppc[u] = "initialize"
    /\ pi[u] = powned[t]

====
